---- MODULE Spec2Model ----
(***************************************************************************)
(* View analytics and premium-payment lifecycle of the classifieds         *)
(* backend (server/routes.ts, db/schema.ts).                               *)
(*                                                                         *)
(* Time is a discrete clock `now` counted in ticks; TicksPerHour ticks     *)
(* make one hour.  Nullable columns are modelled as sequences of length    *)
(* at most one: Null is <<>> and a present value v is <<v>>.               *)
(***************************************************************************)
EXTENDS Integers, Sequences, FiniteSets, TLC

\* ------------------------------------------------------------------ bounds
TicksPerHour == 2
MaxTicks == 2
MaxViews == 2
MaxPayments == 1
MaxUploads == 1
MaxPayTicks == 1
MaxMessages == 1
MaxSockets == 3
MaxBookmarks == 3

\* --------------------------------------------------------------- time units
HourTicks == TicksPerHour
DayTicks == 24 * TicksPerHour
SecondsPerTick == 3600 \div TicksPerHour

\* INTERVAL '1 hour', '24 hours', '7 days' of the view queries
RecentWindow == 1 * HourTicks
ReturnMinAge == 24 * HourTicks
ReturnMaxAge == 7 * DayTicks

\* clock advances offered to the model: one tick (below one hour), one tick
\* less than a day, and a week
Jumps == {1, DayTicks - 1, ReturnMaxAge}
\* clock advances offered while payments are processed
PayJumps == {DayTicks}
\* a jump past the premium period of the 7-day tier
ExpiryJumps == {8 * DayTicks}

\* ------------------------------------------------------------ nullable values
Null == <<>>
Some(v) == <<v>>
IsNull(x) == x = <<>>
Val(x) == x[1]

\* ------------------------------------------------------------------- inputs
ListingIds == {1, 2}
MissingListing == Cardinality(ListingIds) + 1
IPs == {"ip1", "ip2"}
Viewers == {Null, Some(1)}
\* the view requests offered: <<listing id, ip, viewer>>
ViewRequests ==
  {<<1, "ip1", Null>>, <<1, "ip1", Some(1)>>, <<1, "ip2", Null>>,
   <<2, "ip1", Null>>, <<MissingListing, "ip1", Null>>}
UserIds == {1, 2}
AdminIds == {2}
TierIds == {1, 2}
MissingTier == Cardinality(TierIds) + 1
MissingPayment == MaxPayments + 1
Prices == {5, 9}
StatusInputs == {"approved", "rejected", "pending"}
Slots == {1, 2}
\* the slot used when requests are served one at a time
SeqSlots == {1}
\* users who submit payments, the listings they pay for, and the tier whose
\* price is edited
Submitters == {1}
PaidListings == {1}
RepricedTiers == {1}
\* view requests that can be in progress at the same time
VSlots == {1, 2, 3}
\* bookmark requests that can be in progress at the same time
BSlots == {1, 2}
\* the view requests of one (listing, ip) that run at the same time, and the
\* rows they may insert
ConcurrentViews == {<<1, "ip1", Null>>}
ConcurrentJumps == {1}
MaxConcurrentRows == Cardinality(VSlots) + 1
\* the view requests made while the analytics are read
AnalyticsViews == {<<1, "ip1", Null>>, <<1, "ip2", Null>>}
\* the (user, listing) pairs of the analytics requests: the owner, another user,
\* a listing without events and a listing that does not exist
AnalyticsRequests == {<<1, 1>>, <<2, 1>>, <<1, 2>>, <<1, MissingListing>>}
AnalyticsJumps == {1, ReturnMinAge + 1}
\* the title field of a listing edit ("" keeps the title) and the status values
\* an admin passes ("sold" is not one the handler accepts)
Titles == {"", "t1"}
ListingStatusInputs == {"removed", "sold"}
EditedListings == {1, MissingListing}
\* the listing that receives messages and the user who sends them
MessagedListings == {2}
Senders == {2}

VARIABLES
  now,        \* the clock (NOW() / new Date())
  ticks,      \* number of clock advances so far
  views,      \* table listing_views, row id = index
  tiers,      \* table premium_tiers, keyed by id
  listings,   \* table listings, keyed by id
  payments,   \* table premium_payments, row id = index
  uploads,    \* number of files stored by uploadFile
  inflight,   \* PUT /api/admin/premium-payments/:id requests being processed
  res,        \* the last HTTP response sent
  messages,   \* table messages, row id = index
  vflight,    \* POST /api/listings/:id/view requests being processed
  userSockets,\* the Map userSockets of the WebSocket server, in insertion order
  sockets,    \* the sockets opened so far, id = index, TRUE while connected
  bookmarks,  \* table bookmarks, in insertion order
  bflight     \* POST /api/bookmarks requests being processed

vars == <<now, ticks, views, tiers, listings, payments, uploads, inflight, res,
         messages, vflight, userSockets, sockets, bookmarks, bflight>>

Idle == [pc |-> "idle"]
NoRes == [op |-> "none", code |-> 0, msg |-> ""]

\* ---------------------------------------------------------------- the clock
\* time passing while payments are processed
PayTick(d) ==
  /\ ticks < MaxPayTicks
  /\ now' = now + d
  /\ ticks' = ticks + 1
  /\ UNCHANGED <<views, tiers, listings, payments, uploads, inflight, res>>
  /\ UNCHANGED <<userSockets, sockets, bookmarks, bflight>>
  /\ UNCHANGED <<messages, vflight>>

Tick(d) ==
  /\ ticks < MaxTicks
  /\ now' = now + d
  /\ ticks' = ticks + 1
  /\ UNCHANGED <<views, tiers, listings, payments, uploads, inflight, res>>
  /\ UNCHANGED <<userSockets, sockets, bookmarks, bflight>>
  /\ UNCHANGED <<messages, vflight>>

\* ------------------------------------------------- POST /api/listings/:id/view
\* geoip.lookup(ip): a hit gives a country, a miss gives {}
GeoLookup(ip) == IF ip = "ip1" THEN Some("ET") ELSE Null

\* variant: the return-visitor query without the ip_address condition
IsPreviousViewAnyIp(r, l, ip, t) ==
  /\ r.listingId = l
  /\ r.createdAt > t - ReturnMaxAge
  /\ r.createdAt < t - ReturnMinAge

\* variant: the return-visitor query without the 7-day lower limit
IsPreviousViewNoLimit(r, l, ip, t) ==
  /\ r.listingId = l
  /\ r.ipAddress = ip
  /\ r.createdAt < t - ReturnMinAge

\* rows of (listingId, ip) created in the open interval (t - 7 days, t - 24 hours)
IsPreviousView(r, l, ip, t) ==
  /\ r.listingId = l
  /\ r.ipAddress = ip
  /\ r.createdAt > t - ReturnMaxAge
  /\ r.createdAt < t - ReturnMinAge

\* variant: the recent-view query with an empty window
IsRecentViewNoWindow(r, l, ip, t) ==
  /\ r.listingId = l
  /\ r.ipAddress = ip
  /\ r.createdAt > t

\* variant: the recent-view query with a window of 24 hours
IsRecentViewDay(r, l, ip, t) ==
  /\ r.listingId = l
  /\ r.ipAddress = ip
  /\ r.createdAt > t - ReturnMinAge

\* variant: the recent-view query without the listing_id condition
IsRecentViewAnyListing(r, l, ip, t) ==
  /\ r.ipAddress = ip
  /\ r.createdAt > t - RecentWindow

\* rows of (listingId, ip) created less than one hour before t
IsRecentView(r, l, ip, t) ==
  /\ r.listingId = l
  /\ r.ipAddress = ip
  /\ r.createdAt > t - RecentWindow

PreviousViews(l, ip, t) == {i \in DOMAIN views : IsPreviousView(views[i], l, ip, t)}
RecentViews(l, ip, t) == {i \in DOMAIN views : IsRecentView(views[i], l, ip, t)}

\* variant: the duration is stored in clock ticks, not in seconds
SessionDurationTicks(start, t) == t - start

\* EXTRACT(EPOCH FROM (NOW() - view_start_time))::integer
SessionDuration(start, t) == (t - start) * SecondsPerTick

NewView(l, viewer, ip, t, isReturn) ==
  [listingId |-> l, viewerId |-> viewer, ipAddress |-> ip,
   geoLocation |-> GeoLookup(ip), sessionDuration |-> Null,
   viewStartTime |-> t, viewEndTime |-> Null,
   isReturn |-> isReturn, createdAt |-> t]

\* variant: the update also restarts the view
UpdateViewRestart(r, t) ==
  [r EXCEPT !.viewEndTime = Some(t), !.viewStartTime = t,
            !.sessionDuration = Some(SessionDuration(r.viewStartTime, t))]

\* .set({ viewEndTime, sessionDuration })
UpdateView(r, t) ==
  [r EXCEPT !.viewEndTime = Some(t),
            !.sessionDuration = Some(SessionDuration(r.viewStartTime, t))]

RecordView(l, viewer, ip) ==
  /\ UNCHANGED <<now, ticks, tiers, listings, payments, uploads, inflight>>
  /\ UNCHANGED <<userSockets, sockets, bookmarks, bflight>>
  /\ UNCHANGED <<messages, vflight>>
  /\ IF RecentViews(l, ip, now) # {}
     THEN \E i \in RecentViews(l, ip, now) :
            /\ views' = [views EXCEPT ![i] = UpdateView(views[i], now)]
            /\ res' = [op |-> "view", code |-> 200, msg |-> "updated"]
     ELSE IF l \notin DOMAIN listings
     THEN \* the foreign key of listing_views.listing_id rejects the insert
          /\ views' = views
          /\ res' = [op |-> "view", code |-> 500, msg |-> "failed"]
     ELSE /\ Len(views) < MaxViews
          /\ views' = Append(views,
                        NewView(l, viewer, ip, now, PreviousViews(l, ip, now) # {}))
          /\ res' = [op |-> "view", code |-> 200, msg |-> "created"]

\* ------------------------------------------------------------------- tables
InitTiers ==
  [t \in TierIds |-> IF t = 1 THEN [price |-> 5, durationDays |-> 30]
                              ELSE [price |-> 9, durationDays |-> 7]]

InitListings ==
  [l \in ListingIds |-> [userId |-> 1, title |-> "t0", status |-> "active",
                         updatedAt |-> 0, isPremium |-> FALSE,
                         premiumTierId |-> Null, premiumExpiresAt |-> Null]]

Init ==
  /\ now = 0
  /\ ticks = 0
  /\ views = <<>>
  /\ tiers = InitTiers
  /\ listings = InitListings
  /\ payments = <<>>
  /\ uploads = 0
  /\ inflight = [s \in Slots |-> Idle]
  /\ res = NoRes
  /\ messages = <<>>
  /\ vflight = [s \in VSlots |-> Idle]
  /\ userSockets = <<>>
  /\ sockets = <<>>
  /\ bookmarks = <<>>
  /\ bflight = [s \in BSlots |-> Idle]

\* ------------------------------------------------------- view specification
NextView ==
  \/ \E d \in Jumps : Tick(d)
  \/ \E rq \in ViewRequests : RecordView(rq[1], rq[3], rq[2])

SpecView == Init /\ [][NextView]_vars

\* ------------------------------------------------------------ view claims
SameKey(a, b) == a.listingId = b.listingId /\ a.ipAddress = b.ipAddress

\* rows of the key (l, ip) in table vs created in the hour that ends at t
RowsInHour(vs, l, ip, t) ==
  {i \in DOMAIN vs : /\ vs[i].listingId = l
                     /\ vs[i].ipAddress = ip
                     /\ vs[i].createdAt > t - RecentWindow
                     /\ vs[i].createdAt <= t}

\* C1: after every recordView call for an existing listing, exactly one row of
\* that (listingId, ip) was created in the hour ending at the call, so a run of
\* calls less than one hour apart shares one row; that row was either opened
\* by this call (viewStartTime = now) or carries viewEndTime = now and
\* sessionDuration = now - viewStartTime in seconds.
C1_OneRowPerHour ==
  [][\A l \in ListingIds, v \in Viewers, ip \in IPs :
       RecordView(l, v, ip) =>
         /\ Cardinality(RowsInHour(views', l, ip, now)) = 1
         /\ \A i \in RowsInHour(views', l, ip, now) :
              \/ /\ i \notin DOMAIN views
                 /\ views'[i].viewStartTime = now
                 /\ views'[i].viewEndTime = Null
                 /\ views'[i].sessionDuration = Null
              \/ /\ i \in DOMAIN views
                 /\ views'[i].viewEndTime = Some(now)
                 /\ views'[i].sessionDuration =
                      Some((now - views[i].viewStartTime) * SecondsPerTick)]_vars

\* C1 witness: a second call half an hour after the first updated the single row
C1_Witness ==
  /\ res.op = "view" /\ res.msg = "updated"
  /\ Len(views) = 1
  /\ views[1].viewEndTime = Some(now)
  /\ views[1].viewEndTime # Some(views[1].createdAt)

\* earlier rows of the same (listingId, ip) as row i
EarlierRows(i) ==
  {j \in DOMAIN views : j # i /\ SameKey(views[j], views[i])
                         /\ views[j].createdAt < views[i].createdAt}

\* age, at the creation of row i, of the most recent earlier row of its key
LatestGap(i) ==
  LET latest == CHOOSE j \in EarlierRows(i) :
                  \A k \in EarlierRows(i) : views[k].createdAt <= views[j].createdAt
  IN views[i].createdAt - views[latest].createdAt

SubmitAmount(t) == tiers[t].price

NewPayment(l, u, t, url) ==
  [listingId |-> l, userId |-> u, tierId |-> t, paymentProof |-> url,
   amount |-> SubmitAmount(t), status |-> "pending", expiresAt |-> Null]

AllIdle == \A s \in Slots : inflight[s] = Idle

Submit(u, l, t, file) ==
  /\ UNCHANGED <<now, ticks, views, tiers, listings, inflight>>
  /\ UNCHANGED <<userSockets, sockets, bookmarks, bflight>>
  /\ UNCHANGED <<messages, vflight>>
  /\ IF ~file
     THEN /\ UNCHANGED <<payments, uploads>>
          /\ res' = [op |-> "submit", code |-> 400, msg |-> "Payment proof is required"]
     ELSE /\ uploads < MaxUploads
          /\ uploads' = uploads + 1
          /\ IF t \notin DOMAIN tiers \/ l \notin DOMAIN listings
             THEN \* [0].price of an empty result throws; the foreign key of
                  \* listing_id rejects the insert
                  /\ UNCHANGED payments
                  /\ res' = [op |-> "submit", code |-> 500, msg |-> "failed"]
             ELSE /\ Len(payments) < MaxPayments
                  /\ payments' = Append(payments, NewPayment(l, u, t, "url"))
                  /\ res' = [op |-> "submit", code |-> 200, msg |-> "created"]

\* a change of a tier's price made directly in premium_tiers
TierPriceChange(t, p) ==
  /\ p # tiers[t].price
  /\ tiers' = [tiers EXCEPT ![t].price = p]
  /\ UNCHANGED <<now, ticks, views, listings, payments, uploads, inflight, res>>
  /\ UNCHANGED <<userSockets, sockets, bookmarks, bflight>>
  /\ UNCHANGED <<messages, vflight>>

\* ------------------------------------------ PUT /api/admin/premium-payments/:id
\* variant: the admin check accepts every authenticated user
IsAdminAny(u) == TRUE

\* req.user?.isAdmin
IsAdmin(u) == u \in AdminIds

\* variant: the listing is activated for every status
NeedsActivationAlways(st) == TRUE

\* status === "approved"
NeedsActivation(st) == st = "approved"

\* variant: the duration is added in hours
ExpiryDateHours(t, days) == t + days * HourTicks

\* expiresAt = new Date(); expiresAt.setDate(expiresAt.getDate() + durationDays)
ExpiryDate(t, days) == t + days * DayTicks

\* .update(premiumPayments).set({ status })
StatusUpdate(row, st) == [row EXCEPT !.status = st]

\* variant: the approval also puts the listing back to active
ListingUpdateReactivates(row, t, e) ==
  [row EXCEPT !.isPremium = TRUE, !.premiumTierId = Some(t),
              !.premiumExpiresAt = Some(e), !.status = "live"]

\* .update(listings).set({ isPremium, premiumTierId, premiumExpiresAt })
ListingUpdate(row, t, e) ==
  [row EXCEPT !.isPremium = TRUE, !.premiumTierId = Some(t),
              !.premiumExpiresAt = Some(e)]

\* variant: the second payment update also re-derives the amount from the tier
ExpiresUpdateReprice(row, e) ==
  [row EXCEPT !.expiresAt = Some(e), !.amount = tiers[row.tierId].price]

\* .update(premiumPayments).set({ expiresAt })
ExpiresUpdate(row, e) == [row EXCEPT !.expiresAt = Some(e)]

\* the handler up to its first await: the admin check
Begin(s, u, pid, st) ==
  /\ inflight[s] = Idle
  /\ UNCHANGED <<now, ticks, views, tiers, listings, payments, uploads>>
  /\ UNCHANGED <<userSockets, sockets, bookmarks, bflight>>
  /\ UNCHANGED <<messages, vflight>>
  /\ IF ~IsAdmin(u)
     THEN /\ res' = [op |-> "setStatus", code |-> 403, msg |-> "Unauthorized"]
          /\ UNCHANGED inflight
     ELSE /\ inflight' = [inflight EXCEPT ![s] =
                 [pc |-> "update_status", user |-> u, pid |-> pid, status |-> st,
                  payment |-> Null, expiresAt |-> Null, approvedAt |-> Null,
                  code |-> 0,
                  pre |-> [payments |-> payments, listings |-> listings]]]
          /\ UNCHANGED res

\* first write: the status, RETURNING the row (undefined when no row matches)
WriteStatus(s) ==
  LET r == inflight[s] IN
  /\ r.pc = "update_status"
  /\ UNCHANGED <<now, ticks, views, tiers, listings, uploads, res>>
  /\ UNCHANGED <<userSockets, sockets, bookmarks, bflight>>
  /\ UNCHANGED <<messages, vflight>>
  /\ IF r.pid \in DOMAIN payments
     THEN /\ payments' = [payments EXCEPT ![r.pid] = StatusUpdate(@, r.status)]
          /\ inflight' = [inflight EXCEPT ![s] =
               [r EXCEPT !.payment = Some(StatusUpdate(payments[r.pid], r.status)),
                         !.pc = IF NeedsActivation(r.status)
                                THEN "select_tier" ELSE "respond",
                         !.code = IF NeedsActivation(r.status) THEN 0 ELSE 200]]
     ELSE /\ UNCHANGED payments
          /\ inflight' = [inflight EXCEPT ![s] =
               [r EXCEPT !.pc = IF NeedsActivation(r.status)
                                THEN "select_tier" ELSE "respond",
                         !.code = IF NeedsActivation(r.status) THEN 0 ELSE 200]]

\* the tier of the payment is read and expiresAt computed; payment.tierId of an
\* undefined payment throws
SelectTier(s) ==
  LET r == inflight[s] IN
  /\ r.pc = "select_tier"
  /\ UNCHANGED <<now, ticks, views, tiers, listings, payments, uploads, res>>
  /\ UNCHANGED <<userSockets, sockets, bookmarks, bflight>>
  /\ UNCHANGED <<messages, vflight>>
  /\ IF IsNull(r.payment)
     THEN inflight' = [inflight EXCEPT ![s] = [r EXCEPT !.pc = "respond", !.code = 500]]
     ELSE inflight' = [inflight EXCEPT ![s] =
            [r EXCEPT !.pc = "update_listing",
                      !.approvedAt = Some(now),
                      !.expiresAt =
                         Some(ExpiryDate(now, tiers[Val(r.payment).tierId].durationDays))]]

\* second write: the listing of the payment
UpdateListing(s) ==
  LET r == inflight[s] IN
  /\ r.pc = "update_listing"
  /\ UNCHANGED <<now, ticks, views, tiers, payments, uploads, res>>
  /\ UNCHANGED <<userSockets, sockets, bookmarks, bflight>>
  /\ UNCHANGED <<messages, vflight>>
  /\ listings' = [listings EXCEPT ![Val(r.payment).listingId] =
                    ListingUpdate(@, Val(r.payment).tierId, Val(r.expiresAt))]
  /\ inflight' = [inflight EXCEPT ![s] = [r EXCEPT !.pc = "update_expires"]]

\* third write: the expiresAt of the payment
UpdateExpires(s) ==
  LET r == inflight[s] IN
  /\ r.pc = "update_expires"
  /\ UNCHANGED <<now, ticks, views, tiers, listings, uploads, res>>
  /\ UNCHANGED <<userSockets, sockets, bookmarks, bflight>>
  /\ UNCHANGED <<messages, vflight>>
  /\ payments' = [payments EXCEPT ![r.pid] = ExpiresUpdate(@, Val(r.expiresAt))]
  /\ inflight' = [inflight EXCEPT ![s] = [r EXCEPT !.pc = "respond", !.code = 200]]

\* a datastore call of the handler throws: the catch block answers 500 and
\* the writes already made stay
Fail(s) ==
  LET r == inflight[s] IN
  /\ r.pc \in {"update_status", "select_tier", "update_listing", "update_expires"}
  /\ UNCHANGED <<now, ticks, views, tiers, listings, payments, uploads, res>>
  /\ UNCHANGED <<userSockets, sockets, bookmarks, bflight>>
  /\ UNCHANGED <<messages, vflight>>
  /\ inflight' = [inflight EXCEPT ![s] = [r EXCEPT !.pc = "respond", !.code = 500]]

\* res.json(payment) or res.status(500)
Respond(s) ==
  LET r == inflight[s] IN
  /\ r.pc = "respond"
  /\ UNCHANGED <<now, ticks, views, tiers, listings, payments, uploads>>
  /\ UNCHANGED <<userSockets, sockets, bookmarks, bflight>>
  /\ UNCHANGED <<messages, vflight>>
  /\ res' = [op |-> "setStatus", code |-> r.code,
             msg |-> IF r.code = 200 THEN "payment" ELSE "failed"]
  /\ inflight' = [inflight EXCEPT ![s] = Idle]

\* ----------------------------------------------------- payment specification
\* requests are served one at a time
NextPay ==
  \/ \E d \in PayJumps : PayTick(d)
  \/ \E u \in Submitters, l \in PaidListings \cup {MissingListing},
        t \in TierIds \cup {MissingTier}, file \in BOOLEAN :
       AllIdle /\ Submit(u, l, t, file)
  \/ \E t \in RepricedTiers, p \in Prices : AllIdle /\ TierPriceChange(t, p)
  \/ \E s \in SeqSlots, u \in UserIds, pid \in 1..MissingPayment, st \in StatusInputs :
       AllIdle /\ Begin(s, u, pid, st)
  \/ \E s \in SeqSlots : WriteStatus(s)
  \/ \E s \in SeqSlots : SelectTier(s)
  \/ \E s \in SeqSlots : UpdateListing(s)
  \/ \E s \in SeqSlots : UpdateExpires(s)
  \/ \E s \in SeqSlots : Fail(s)
  \/ \E s \in SeqSlots : Respond(s)

SpecPay == Init /\ [][NextPay]_vars

\* ---------------------------------------------------------- payment claims
PremiumFields(l) ==
  <<l.isPremium, l.premiumTierId, l.premiumExpiresAt>>

\* requests about an existing payment that have done all their work and are
\* about to answer
Finished(s) ==
  /\ inflight[s].pc = "respond"
  /\ inflight[s].pid \in DOMAIN inflight[s].pre.payments

\* C2: when the approval of a pending payment answers 200, the listing of the
\* payment has isPremium = TRUE, premiumTierId = payment.tierId and
\* premiumExpiresAt = approval time + tier.durationDays days, and the payment
\* has status approved and the same expiresAt.
C2_ApprovalResult ==
  \A s \in Slots :
    (/\ Finished(s)
     /\ inflight[s].code = 200
     /\ inflight[s].status = "approved"
     /\ inflight[s].pre.payments[inflight[s].pid].status = "pending")
    => LET r == inflight[s]
           pay == payments[r.pid]
           lst == listings[pay.listingId]
       IN /\ lst.isPremium = TRUE
          /\ lst.premiumTierId = Some(pay.tierId)
          /\ lst.premiumExpiresAt =
               Some(Val(r.approvedAt) + tiers[pay.tierId].durationDays * DayTicks)
          /\ pay.status = "approved"
          /\ pay.expiresAt = lst.premiumExpiresAt

\* C2 witness: an approval of a pending payment is about to answer 200 and the
\* listing is premium
C2_Witness ==
  \E s \in Slots :
    /\ Finished(s)
    /\ inflight[s].code = 200
    /\ inflight[s].status = "approved"
    /\ inflight[s].pre.payments[inflight[s].pid].status = "pending"
    /\ listings[payments[inflight[s].pid].listingId].isPremium

\* C3: when an approval request has ended, with or without an error, the
\* payment row and the listing row have both changed or are both as they were
\* when the request began.
C3_ApprovalAtomic ==
  \A s \in Slots :
    (Finished(s) /\ inflight[s].status = "approved")
    => LET r == inflight[s]
           lid == payments[r.pid].listingId
       IN \/ /\ payments[r.pid] = r.pre.payments[r.pid]
             /\ listings[lid] = r.pre.listings[lid]
          \/ /\ payments[r.pid].status = "approved"
             /\ ~IsNull(r.expiresAt)
             /\ payments[r.pid].expiresAt = r.expiresAt
             /\ PremiumFields(listings[lid]) =
                  <<TRUE, Some(payments[r.pid].tierId), r.expiresAt>>

\* C4: a setStatus request on a payment that was already approved or rejected
\* leaves its status, its expiresAt and the premium fields of its listing as
\* they were.
C4_TerminalStatus ==
  \A s \in Slots :
    (/\ Finished(s)
     /\ inflight[s].pre.payments[inflight[s].pid].status \in {"approved", "rejected"})
    => LET r == inflight[s]
           lid == payments[r.pid].listingId
       IN /\ payments[r.pid].status = r.pre.payments[r.pid].status
          /\ payments[r.pid].expiresAt = r.pre.payments[r.pid].expiresAt
          /\ PremiumFields(listings[lid]) = PremiumFields(r.pre.listings[lid])

\* C5: whenever no request is being processed, every payment has expiresAt set
\* exactly when its status is approved.
C5_ExpiresIffApproved ==
  AllIdle =>
    \A i \in DOMAIN payments :
      ~IsNull(payments[i].expiresAt) <=> payments[i].status = "approved"

\* C6: a request with newStatus = rejected never changes a listing, and when
\* it answers 200 the payments differ from those at its start only in the
\* status of its payment.
C6_RejectFrame ==
  \A s \in Slots :
    (inflight[s] # Idle /\ inflight[s].status = "rejected")
    => /\ listings = inflight[s].pre.listings
       /\ (Finished(s) /\ inflight[s].code = 200)
            => payments = [inflight[s].pre.payments EXCEPT
                             ![inflight[s].pid].status = "rejected"]

\* C6 witness: the rejection of a pending payment is about to answer 200
C6_Witness ==
  \E s \in Slots :
    /\ Finished(s)
    /\ inflight[s].code = 200
    /\ inflight[s].status = "rejected"
    /\ inflight[s].pre.payments[inflight[s].pid].status = "pending"
    /\ payments[inflight[s].pid].status = "rejected"

\* C7: a payment is inserted with the amount its tier's price has at that
\* moment, and no step changes the amount of an existing payment.
C7_AmountFixed ==
  [][\A i \in DOMAIN payments' :
       /\ i \in DOMAIN payments => payments'[i].amount = payments[i].amount
       /\ i \notin DOMAIN payments =>
            payments'[i].amount = tiers[payments'[i].tierId].price]_vars

\* C7 witness: an approved payment whose tier now has another price
C7_Witness ==
  \E i \in DOMAIN payments :
    /\ payments[i].status = "approved"
    /\ ~IsNull(payments[i].expiresAt)
    /\ payments[i].amount # tiers[payments[i].tierId].price

\* C10: a setStatus call by a user who is not an admin is answered 403 and
\* changes no payment and no listing, and starts no work.
C10_NonAdminForbidden ==
  [][\A s \in Slots, u \in UserIds \ AdminIds,
        pid \in 1..MissingPayment, st \in StatusInputs :
       Begin(s, u, pid, st) =>
         /\ res' = [op |-> "setStatus", code |-> 403, msg |-> "Unauthorized"]
         /\ payments' = payments
         /\ listings' = listings
         /\ inflight' = inflight]_vars

\* C10 witness: a call was answered 403 while a payment is pending
C10_Witness ==
  /\ res.op = "setStatus" /\ res.code = 403
  /\ AllIdle
  /\ \E i \in DOMAIN payments : payments[i].status = "pending"

\* C11: a setStatus request for a payment id that has no row is answered 404,
\* whatever the new status, and leaves all payments and listings as they were.
C11_MissingPaymentNotFound ==
  \A s \in Slots :
    (/\ inflight[s].pc = "respond"
     /\ inflight[s].pid \notin DOMAIN inflight[s].pre.payments)
    => /\ inflight[s].code = 404
       /\ payments = inflight[s].pre.payments
       /\ listings = inflight[s].pre.listings

\* C12: a submit without a proof file, or with a tier id that has no tier row,
\* is answered 400 and creates no payment row.
C12_SubmitValidation ==
  [][\A u \in Submitters, l \in PaidListings,
        t \in TierIds \cup {MissingTier}, file \in BOOLEAN :
       (Submit(u, l, t, file) /\ (~file \/ t \notin DOMAIN tiers))
         => /\ res'.code = 400
            /\ payments' = payments]_vars

\* ---------------------------------------------------------- POST /api/messages
NewMessage(u, l) == [senderId |-> u, listingId |-> l]

SendMessage(u, l, hasContent) ==
  /\ UNCHANGED <<now, ticks, views, tiers, listings, payments, uploads, inflight>>
  /\ UNCHANGED <<userSockets, sockets, bookmarks, bflight>>
  /\ UNCHANGED vflight
  /\ IF ~hasContent
     THEN /\ UNCHANGED messages
          /\ res' = [op |-> "message", code |-> 400, msg |-> "Message content is required"]
     ELSE /\ Len(messages) < MaxMessages
          /\ messages' = Append(messages, NewMessage(u, l))
          /\ res' = [op |-> "message", code |-> 200, msg |-> "created"]

\* ------------------------------------------------ GET /api/listings/:id/analytics
\* variant: every authenticated user may read the analytics of an existing listing
IsOwnerAny(u, l) == l \in DOMAIN listings

\* listing && listing.userId === req.user.id
IsOwner(u, l) == l \in DOMAIN listings /\ listings[l].userId = u

\* variant: the aggregates without the listing_id condition
ListingViewsAll(l) == DOMAIN views

\* where listing_id = listingId
ListingViews(l) == {i \in DOMAIN views : views[i].listingId = l}

\* variant: count(session_duration), which skips the rows without a duration
TotalViewsTimed(l) ==
  Cardinality({i \in ListingViews(l) : ~IsNull(views[i].sessionDuration)})

\* count(*)
TotalViews(l) == Cardinality(ListingViews(l))

\* count(distinct ip_address)
UniqueVisitors(l) == Cardinality({views[i].ipAddress : i \in ListingViews(l)})

\* count(distinct case when is_return then ip_address end)
ReturningVisitors(l) ==
  Cardinality({views[i].ipAddress : i \in {j \in ListingViews(l) : views[j].isReturn}})

\* the rows avg() aggregates: those whose session_duration is not NULL
TimedViews(l) == {i \in ListingViews(l) : ~IsNull(views[i].sessionDuration)}

RECURSIVE SumDurations(_)
SumDurations(S) ==
  IF S = {} THEN 0
  ELSE LET i == CHOOSE j \in S : TRUE
       IN Val(views[i].sessionDuration) + SumDurations(S \ {i})

\* numeric::int rounds to the nearest integer, a half away from zero
RoundDiv(a, n) == (2 * a + n) \div (2 * n)

\* variant: the rows without a duration count as zero
AvgDurationNullAsZero(l) ==
  IF ListingViews(l) = {} THEN Null
  ELSE Some(RoundDiv(SumDurations(TimedViews(l)), Cardinality(ListingViews(l))))

\* avg(session_duration)::int, NULL when there is no row to aggregate
AvgDuration(l) ==
  IF TimedViews(l) = {} THEN Null
  ELSE Some(RoundDiv(SumDurations(TimedViews(l)), Cardinality(TimedViews(l))))

\* to_char(created_at, 'HH24:00')
HourOfDay(t) == (t \div HourTicks) % 24

\* date_trunc('day', created_at)
DayOf(t) == t \div DayTicks

\* rows of the last 24 hours grouped by hour of day
HourlyViews(l, t) ==
  LET rows == {i \in ListingViews(l) : views[i].createdAt > t - 24 * HourTicks}
  IN {[hour |-> h, count |-> Cardinality({i \in rows : HourOfDay(views[i].createdAt) = h})] :
        h \in {HourOfDay(views[i].createdAt) : i \in rows}}

\* rows of the last 7 days grouped by day
DailyViews(l, t) ==
  LET rows == {i \in ListingViews(l) : views[i].createdAt > t - 7 * DayTicks}
  IN {[date |-> d, count |-> Cardinality({i \in rows : DayOf(views[i].createdAt) = d})] :
        d \in {DayOf(views[i].createdAt) : i \in rows}}

\* rows grouped by country, having country is not null
GeoDistribution(l) ==
  LET rows == {i \in ListingViews(l) : ~IsNull(views[i].geoLocation)}
  IN {[country |-> Val(c), count |-> Cardinality({i \in rows : views[i].geoLocation = c})] :
        c \in {views[i].geoLocation : i \in rows}}

\* count(*) of the messages of the listing
MessageCount(l) == Cardinality({i \in DOMAIN messages : messages[i].listingId = l})

\* the body of the 200 answer
Report(l, t) ==
  [views |-> [total |-> TotalViews(l), unique |-> UniqueVisitors(l),
              returningVisitors |-> ReturningVisitors(l),
              avgDuration |-> AvgDuration(l)],
   hourlyViews |-> HourlyViews(l, t),
   dailyViews |-> DailyViews(l, t),
   geoDistribution |-> GeoDistribution(l),
   messageCount |-> MessageCount(l)]

GetAnalytics(u, l) ==
  /\ UNCHANGED <<now, ticks, views, tiers, listings, payments, uploads, inflight>>
  /\ UNCHANGED <<userSockets, sockets, bookmarks, bflight>>
  /\ UNCHANGED <<messages, vflight>>
  /\ IF ~IsOwner(u, l)
     THEN res' = [op |-> "analytics", code |-> 403, msg |-> "Unauthorized",
                  report |-> Null]
     ELSE res' = [op |-> "analytics", code |-> 200, msg |-> "report",
                  report |-> Some(Report(l, now))]

\* ---------------------------------------------------- analytics specification
NextAnalytics ==
  \/ \E d \in AnalyticsJumps : Tick(d)
  \/ \E rq \in AnalyticsViews : RecordView(rq[1], rq[3], rq[2])
  \/ \E u \in Senders, l \in MessagedListings, c \in BOOLEAN : SendMessage(u, l, c)
  \/ \E rq \in AnalyticsRequests : GetAnalytics(rq[1], rq[2])

SpecAnalytics == Init /\ [][NextAnalytics]_vars

\* ---------------------------------------------------------- analytics claims
\* C13: an analytics request by the owner of the listing is answered 200 with
\* the report; a request by any other user, or for a listing that does not
\* exist, is answered 403 and carries no report.
C13_OwnerOnly ==
  [][\A rq \in AnalyticsRequests :
       LET u == rq[1]
           l == rq[2]
       IN
       GetAnalytics(u, l) =>
         IF l \in DOMAIN listings /\ listings[l].userId = u
         THEN /\ res'.code = 200
              /\ res'.report = Some(Report(l, now))
         ELSE /\ res'.code = 403
              /\ res'.msg = "Unauthorized"
              /\ IsNull(res'.report)]_vars

\* C13 witness: a request was answered 403 while a listing has view events
C13_Witness ==
  /\ res.op = "analytics" /\ res.code = 403
  /\ IsNull(res.report)
  /\ \E l \in ListingIds : ListingViews(l) # {}

\* C14: every report has unique <= total and returningVisitors <= unique.
C14_CounterOrder ==
  (res.op = "analytics" /\ res.code = 200)
    => LET v == Val(res.report).views
       IN /\ v.unique <= v.total
          /\ v.returningVisitors <= v.unique

\* C14 witness: a report with a returning visitor and more events than visitors
C14_Witness ==
  /\ res.op = "analytics" /\ res.code = 200
  /\ Val(res.report).views.returningVisitors >= 1
  /\ Val(res.report).views.total > Val(res.report).views.unique

\* C15: avgDuration of a report is null when no event of the listing has a
\* sessionDuration, and otherwise the integer average of the sessionDuration
\* of the events that have one: it lies less than 1 from their sum divided by
\* their number, and the events without a duration are not in either.
C15_AvgOverTimed ==
  [][\A u \in UserIds, l \in ListingIds :
       (<<u, l>> \in AnalyticsRequests /\ listings[l].userId = u /\ GetAnalytics(u, l)) =>
         LET a == Val(res'.report).views.avgDuration
             T == {i \in DOMAIN views :
                     views[i].listingId = l /\ ~IsNull(views[i].sessionDuration)}
             n == Cardinality(T)
         IN IF T = {} THEN IsNull(a)
            ELSE /\ ~IsNull(a)
                 /\ n * Val(a) - SumDurations(T) < n
                 /\ SumDurations(T) - n * Val(a) < n]_vars

\* C15 witness: a report over one event with a duration above zero and one
\* event without a duration, whose avgDuration is the duration of the first
C15_Witness ==
  /\ res.op = "analytics" /\ res.code = 200
  /\ Val(res.report).views.total = 2
  /\ \E i, j \in ListingViews(1) :
       /\ ~IsNull(views[i].sessionDuration)
       /\ Val(views[i].sessionDuration) > 0
       /\ IsNull(views[j].sessionDuration)
       /\ Val(res.report).views.avgDuration = views[i].sessionDuration

DurationInputs == {0 - 1, 0, 7}

InitAnyDuration ==
  /\ now = 0
  /\ ticks = 0
  /\ views = <<>>
  /\ tiers \in {[InitTiers EXCEPT ![2].durationDays = d] : d \in DurationInputs}
  /\ listings = InitListings
  /\ payments = <<>>
  /\ uploads = 0
  /\ inflight = [s \in Slots |-> Idle]
  /\ res = NoRes
  /\ messages = <<>>
  /\ vflight = [s \in VSlots |-> Idle]
  /\ userSockets = <<>>
  /\ sockets = <<>>
  /\ bookmarks = <<>>
  /\ bflight = [s \in BSlots |-> Idle]

SpecPayAnyDuration == InitAnyDuration /\ [][NextPay]_vars

\* C16: after every step a premium listing has a premiumExpiresAt, and a step
\* that writes the premium fields of a listing writes a premiumExpiresAt later
\* than the time of the write, whatever integer the tier's durationDays is.
C16_PremiumExpiresLater ==
  [][\A l \in DOMAIN listings :
       /\ listings'[l].isPremium => ~IsNull(listings'[l].premiumExpiresAt)
       /\ PremiumFields(listings'[l]) # PremiumFields(listings[l])
            => Val(listings'[l].premiumExpiresAt) > now]_vars

\* ------------------------------------------------------ PUT /api/listings/:id
\* .set({ title: formData.title?.trim() || existingListing.title, ..., updatedAt })
\* (the other edited columns behave as the title does)
EditedRow(row, title, t) ==
  [row EXCEPT !.title = IF title = "" THEN @ ELSE title, !.updatedAt = t]

EditListing(u, l, title) ==
  /\ UNCHANGED <<now, ticks, views, tiers, payments, uploads, inflight>>
  /\ UNCHANGED <<userSockets, sockets, bookmarks, bflight>>
  /\ UNCHANGED <<messages, vflight>>
  /\ IF l \notin DOMAIN listings
     THEN /\ UNCHANGED listings
          /\ res' = [op |-> "edit", code |-> 404, msg |-> "Listing not found"]
     ELSE IF listings[l].userId # u
     THEN /\ UNCHANGED listings
          /\ res' = [op |-> "edit", code |-> 403, msg |-> "no permission"]
     ELSE /\ listings' = [listings EXCEPT ![l] = EditedRow(@, title, now)]
          /\ res' = [op |-> "edit", code |-> 200, msg |-> "listing"]

\* --------------------------------------------------- DELETE /api/listings/:id
\* variant: the delete also ends the premium state of the listing
DeletedRowEndsPremium(row, t) ==
  [row EXCEPT !.status = "deleted", !.updatedAt = t, !.isPremium = FALSE]

\* .set({ status: 'deleted', updatedAt })
DeletedRow(row, t) == [row EXCEPT !.status = "deleted", !.updatedAt = t]

DeleteListing(u, l) ==
  /\ UNCHANGED <<now, ticks, views, tiers, payments, uploads, inflight>>
  /\ UNCHANGED <<userSockets, sockets, bookmarks, bflight>>
  /\ UNCHANGED <<messages, vflight>>
  /\ IF l \notin DOMAIN listings
     THEN /\ UNCHANGED listings
          /\ res' = [op |-> "delete", code |-> 404, msg |-> "Listing not found"]
     ELSE IF listings[l].userId # u
     THEN /\ UNCHANGED listings
          /\ res' = [op |-> "delete", code |-> 403, msg |-> "no permission"]
     ELSE /\ listings' = [listings EXCEPT ![l] = DeletedRow(@, now)]
          /\ res' = [op |-> "delete", code |-> 200, msg |-> "Listing deleted successfully"]

\* ------------------------------------------------ PUT /api/admin/listings/:id
\* ['active', 'removed', 'deleted'].includes(status)
ValidListingStatus(st) == st \in {"active", "removed", "deleted"}

\* variant: a change of status by the admin also ends the premium state
ModeratedRowEndsPremium(row, st, t) ==
  [row EXCEPT !.status = st, !.updatedAt = t, !.isPremium = FALSE]

\* .set({ status, updatedAt })
ModeratedRow(row, st, t) == [row EXCEPT !.status = st, !.updatedAt = t]

AdminListingStatus(u, l, st) ==
  /\ UNCHANGED <<now, ticks, views, tiers, payments, uploads, inflight>>
  /\ UNCHANGED <<userSockets, sockets, bookmarks, bflight>>
  /\ UNCHANGED <<messages, vflight>>
  /\ IF ~IsAdmin(u)
     THEN /\ UNCHANGED listings
          /\ res' = [op |-> "moderate", code |-> 403, msg |-> "Unauthorized"]
     ELSE IF ~ValidListingStatus(st)
     THEN /\ UNCHANGED listings
          /\ res' = [op |-> "moderate", code |-> 400, msg |-> "Invalid status"]
     ELSE \* an id without a row updates nothing and is answered 200
          /\ listings' = IF l \in DOMAIN listings
                         THEN [listings EXCEPT ![l] = ModeratedRow(@, st, now)]
                         ELSE listings
          /\ res' = [op |-> "moderate", code |-> 200, msg |-> "listing"]

\* ------------------------------------------------------ listing specification
\* the payment requests and the listing requests, served one at a time at one
\* instant
NextListing ==
  \/ \E u \in Submitters, l \in PaidListings \cup {MissingListing},
        t \in TierIds \cup {MissingTier}, file \in BOOLEAN :
       AllIdle /\ Submit(u, l, t, file)
  \/ \E s \in SeqSlots, u \in UserIds, pid \in 1..MissingPayment, st \in StatusInputs :
       AllIdle /\ Begin(s, u, pid, st)
  \/ \E s \in SeqSlots : WriteStatus(s)
  \/ \E s \in SeqSlots : SelectTier(s)
  \/ \E s \in SeqSlots : UpdateListing(s)
  \/ \E s \in SeqSlots : UpdateExpires(s)
  \/ \E s \in SeqSlots : Fail(s)
  \/ \E s \in SeqSlots : Respond(s)
  \/ \E u \in UserIds, l \in EditedListings, title \in Titles :
       AllIdle /\ EditListing(u, l, title)
  \/ \E u \in UserIds, l \in EditedListings : AllIdle /\ DeleteListing(u, l)
  \/ \E u \in UserIds, l \in EditedListings, st \in ListingStatusInputs :
       AllIdle /\ AdminListingStatus(u, l, st)

SpecListing == Init /\ [][NextListing]_vars

\* ------------------------------------------------------------ listing claims
\* C19: the only step that changes isPremium, premiumTierId or premiumExpiresAt
\* of a listing is the listing write of a setStatus request with newStatus
\* approved: a listing edit, an owner delete, an admin status change, a payment
\* submit and a rejection leave the three fields as they were.
C19_PremiumFrame ==
  [][/\ \A l \in DOMAIN listings :
          PremiumFields(listings'[l]) # PremiumFields(listings[l])
            => \E s \in Slots : /\ inflight[s].pc = "update_listing"
                                /\ inflight[s].status = "approved"
                                /\ inflight'[s].pc = "update_expires"
     /\ (res' # res /\ res'.op \in {"edit", "delete", "moderate", "submit"})
          => \A l \in DOMAIN listings :
               PremiumFields(listings'[l]) = PremiumFields(listings[l])]_vars

\* C19 witness: a premium listing that was edited and deleted after its
\* payment was approved and then rejected, and still has its premium fields
C19_Witness ==
  \E l \in DOMAIN listings, i \in DOMAIN payments :
    /\ listings[l].isPremium
    /\ ~IsNull(listings[l].premiumExpiresAt)
    /\ listings[l].title = "t1"
    /\ listings[l].status = "deleted"
    /\ payments[i].listingId = l
    /\ payments[i].status = "rejected"
    /\ res.op = "delete" /\ res.code = 200

\* ------------------------------------------- concurrent payment specification
\* two payments of one listing, for different tiers, wait for the admin
PendingPayments ==
  <<NewPayment(1, 1, 1, "url"), NewPayment(1, 1, 2, "url")>>

InitTwoPending ==
  /\ now = 0
  /\ ticks = 0
  /\ views = <<>>
  /\ tiers = InitTiers
  /\ listings = InitListings
  /\ payments = PendingPayments
  /\ uploads = Len(PendingPayments)
  /\ inflight = [s \in Slots |-> Idle]
  /\ res = NoRes
  /\ messages = <<>>
  /\ vflight = [s \in VSlots |-> Idle]
  /\ userSockets = <<>>
  /\ sockets = <<>>
  /\ bookmarks = <<>>
  /\ bflight = [s \in BSlots |-> Idle]

\* the steps of the requests in progress interleave in every order
NextPayConcurrent ==
  \/ \E d \in PayJumps : PayTick(d)
  \/ \E s \in Slots, u \in AdminIds, pid \in DOMAIN PendingPayments,
        st \in {"approved"} : Begin(s, u, pid, st)
  \/ \E s \in Slots : WriteStatus(s)
  \/ \E s \in Slots : SelectTier(s)
  \/ \E s \in Slots : UpdateListing(s)
  \/ \E s \in Slots : UpdateExpires(s)
  \/ \E s \in Slots : Respond(s)

SpecPayConcurrent == InitTwoPending /\ [][NextPayConcurrent]_vars

\* the time at which the approval of a payment computed its expiresAt
ApprovalTime(i) ==
  Val(payments[i].expiresAt) - tiers[payments[i].tierId].durationDays * DayTicks

ApprovedPayments(l) ==
  {i \in DOMAIN payments : /\ payments[i].listingId = l
                           /\ payments[i].status = "approved"
                           /\ ~IsNull(payments[i].expiresAt)}

\* C20: whenever no request is in progress and a listing has two or more
\* approved payments, its premiumTierId and premiumExpiresAt are the tierId and
\* expiresAt of a payment whose approval is not older than any other.
C20_LatestApprovalWins ==
  AllIdle =>
    \A l \in DOMAIN listings :
      Cardinality(ApprovedPayments(l)) >= 2 =>
        \E i \in ApprovedPayments(l) :
          /\ \A j \in ApprovedPayments(l) : ApprovalTime(j) <= ApprovalTime(i)
          /\ listings[l].premiumTierId = Some(payments[i].tierId)
          /\ listings[l].premiumExpiresAt = payments[i].expiresAt

\* ----------------------------- POST /api/listings/:id/view, statement by statement
\* first await: the previousView query; a new request takes the first free slot
SelectPrevious(s, l, viewer, ip) ==
  /\ vflight[s] = Idle
  /\ \A q \in VSlots : q < s => vflight[q] # Idle
  /\ UNCHANGED <<now, ticks, views, tiers, listings, payments, uploads, inflight>>
  /\ UNCHANGED <<userSockets, sockets, bookmarks, bflight>>
  /\ UNCHANGED <<res, messages>>
  /\ vflight' = [vflight EXCEPT ![s] =
       [pc |-> "select_recent", listingId |-> l, viewerId |-> viewer, ip |-> ip,
        previousView |-> PreviousViews(l, ip, now) # {}, recentView |-> Null]]

\* second await: the recentView query, limit 1
SelectRecent(s) ==
  LET r == vflight[s] IN
  /\ r.pc = "select_recent"
  /\ UNCHANGED <<now, ticks, views, tiers, listings, payments, uploads, inflight>>
  /\ UNCHANGED <<userSockets, sockets, bookmarks, bflight>>
  /\ UNCHANGED <<res, messages>>
  /\ IF RecentViews(r.listingId, r.ip, now) = {}
     THEN vflight' = [vflight EXCEPT ![s] = [r EXCEPT !.pc = "write"]]
     ELSE \E i \in RecentViews(r.listingId, r.ip, now) :
            vflight' = [vflight EXCEPT ![s] =
                          [r EXCEPT !.pc = "write", !.recentView = Some(i)]]

\* third await: the update of the recent row, or the insert of a new one
WriteView(s) ==
  LET r == vflight[s] IN
  /\ r.pc = "write"
  /\ UNCHANGED <<now, ticks, tiers, listings, payments, uploads, inflight>>
  /\ UNCHANGED <<userSockets, sockets, bookmarks, bflight>>
  /\ UNCHANGED messages
  /\ vflight' = [vflight EXCEPT ![s] = Idle]
  /\ IF ~IsNull(r.recentView)
     THEN /\ views' = [views EXCEPT ![Val(r.recentView)] =
                         UpdateView(views[Val(r.recentView)], now)]
          /\ res' = [op |-> "view", code |-> 200, msg |-> "updated"]
     ELSE IF r.listingId \notin DOMAIN listings
     THEN /\ views' = views
          /\ res' = [op |-> "view", code |-> 500, msg |-> "failed"]
     ELSE /\ Len(views) < MaxConcurrentRows
          /\ views' = Append(views,
                        NewView(r.listingId, r.viewerId, r.ip, now, r.previousView))
          /\ res' = [op |-> "view", code |-> 200, msg |-> "created"]

\* ---------------------------------------------- concurrent view specification
\* the statements of the requests in progress interleave in every order
NextViewConcurrent ==
  \/ \E d \in ConcurrentJumps : Tick(d)
  \/ \E s \in VSlots, rq \in ConcurrentViews : SelectPrevious(s, rq[1], rq[3], rq[2])
  \/ \E s \in VSlots : SelectRecent(s)
  \/ \E s \in VSlots : WriteView(s)

SpecViewConcurrent == Init /\ [][NextViewConcurrent]_vars

\* ------------------------------------------------------ concurrent view claims
\* rows of the pair of row i created in the hour that ends with the creation of i
RowsWithin(vs, i) ==
  {j \in DOMAIN vs : /\ SameKey(vs[j], vs[i])
                     /\ vs[j].createdAt > vs[i].createdAt - RecentWindow
                     /\ vs[j].createdAt <= vs[i].createdAt}

\* a step keeps every row, and changes of a row only its viewEndTime and its
\* sessionDuration, to the time of the step and the time since viewStartTime
RowsKept ==
  \A i \in DOMAIN views :
    /\ i \in DOMAIN views'
    /\ views'[i].listingId = views[i].listingId
    /\ views'[i].viewerId = views[i].viewerId
    /\ views'[i].ipAddress = views[i].ipAddress
    /\ views'[i].geoLocation = views[i].geoLocation
    /\ views'[i].isReturn = views[i].isReturn
    /\ views'[i].createdAt = views[i].createdAt
    /\ views'[i].viewStartTime = views[i].viewStartTime
    /\ views'[i] # views[i] =>
         /\ views'[i].viewEndTime = Some(now)
         /\ views'[i].sessionDuration =
              Some((now - views[i].viewStartTime) * SecondsPerTick)

\* C18: however the statements of concurrent view requests of one (listing, ip)
\* interleave, the pair never has more than two rows created within one hour
\* (the row the rule allows and one extra), and every step keeps the rows.
C18_Original ==
  [][/\ \A i \in DOMAIN views' : Cardinality(RowsWithin(views', i)) <= 2
     /\ RowsKept]_vars

\* C18 as amended: with at most k requests in progress at the same time the
\* pair never has more than k rows created within one hour (k - 1 extra rows),
\* and every step keeps the rows.
C18_ExtraRowsBounded ==
  [][/\ \A i \in DOMAIN views' :
          Cardinality(RowsWithin(views', i)) <= Cardinality(VSlots)
     /\ RowsKept]_vars

\* C18 witness: three requests that ran together have each inserted a row at the
\* same time, and a later request has updated one of them
C18_Witness ==
  /\ \E i \in DOMAIN views : Cardinality(RowsWithin(views, i)) = Cardinality(VSlots)
  /\ \E i \in DOMAIN views : ~IsNull(views[i].sessionDuration)
  /\ \A s \in VSlots : vflight[s] = Idle

\* ------------------------------------------------------- further view claims
\* C21: a recordView call that finds a row of its (listingId, ip) created less
\* than one hour ago adds no row and changes of that one row only viewEndTime,
\* to now, and sessionDuration, to the seconds since its viewStartTime; every
\* other field of the row and every other row stay as they were.
C21_UpdateFrame ==
  [][\A l \in ListingIds, v \in Viewers, ip \in IPs :
       (RecordView(l, v, ip) /\ RowsInHour(views, l, ip, now) # {}) =>
         \E i \in RowsInHour(views, l, ip, now) :
           views' = [views EXCEPT
                       ![i].viewEndTime = Some(now),
                       ![i].sessionDuration =
                          Some((now - views[i].viewStartTime) * SecondsPerTick)]]_vars

\* C21 witness: a call has updated one of two rows; the other row has no duration
C21_Witness ==
  /\ res.op = "view" /\ res.msg = "updated"
  /\ \E i, j \in DOMAIN views :
       /\ views[i].viewEndTime = Some(now)
       /\ ~IsNull(views[i].sessionDuration)
       /\ Val(views[i].sessionDuration) > 0
       /\ views[i].viewStartTime = views[i].createdAt
       /\ IsNull(views[j].sessionDuration)

\* C22: a recordView call changes no row that was created more than one hour
\* before it, and when every row of its (listingId, ip) is that old the call
\* adds a new row.
C22_OldRowsImmutable ==
  [][\A l \in ListingIds, v \in Viewers, ip \in IPs :
       RecordView(l, v, ip) =>
         /\ \A i \in DOMAIN views :
              views[i].createdAt < now - RecentWindow => views'[i] = views[i]
         /\ (\A i \in DOMAIN views :
               (views[i].listingId = l /\ views[i].ipAddress = ip)
                 => views[i].createdAt < now - RecentWindow)
              => /\ Len(views') = Len(views) + 1
                 /\ views'[Len(views')].listingId = l
                 /\ views'[Len(views')].ipAddress = ip
                 /\ views'[Len(views')].createdAt = now]_vars

\* C22 witness: a row created more than one hour ago has kept its empty
\* duration while a later view of the same pair opened a new row
C22_Witness ==
  /\ res.op = "view" /\ res.msg = "created"
  /\ \E i, j \in DOMAIN views :
       /\ SameKey(views[i], views[j])
       /\ views[i].createdAt < now - RecentWindow
       /\ views[i].createdAt > now - ReturnMinAge
       /\ IsNull(views[i].viewEndTime)
       /\ views[j].createdAt = now

\* C26: a recordView call that finds a recent row of its (listingId, ip) keeps
\* the number of rows and the viewerId of every row, whoever the viewer of the
\* call is; and no call changes a row of another listing or of another ip.
C26_KeyedOnListingAndIp ==
  [][\A l \in ListingIds, v \in Viewers, ip \in IPs :
       RecordView(l, v, ip) =>
         /\ RowsInHour(views, l, ip, now) # {} =>
              /\ Len(views') = Len(views)
              /\ \A i \in DOMAIN views : views'[i].viewerId = views[i].viewerId
         /\ \A i \in DOMAIN views :
              (views[i].listingId # l \/ views[i].ipAddress # ip)
                => views'[i] = views[i]]_vars

\* C26 witness: the pair (1, ip1) has one row, opened by an anonymous viewer
\* and updated since, and a row of another pair opened within the same hour
\* has no duration
C26_Witness ==
  /\ Len(views) = 2
  /\ \E i, j \in DOMAIN views :
       /\ views[i].listingId = 1 /\ views[i].ipAddress = "ip1"
       /\ IsNull(views[i].viewerId)
       /\ ~IsNull(views[i].sessionDuration)
       /\ ~SameKey(views[i], views[j])
       /\ views[j].createdAt < views[i].createdAt + RecentWindow
       /\ views[j].createdAt >= views[i].createdAt
       /\ IsNull(views[j].sessionDuration)

\* -------------------------------------------- payments with any status value
\* req.body.status is stored as it comes: the column is text and the handler
\* compares it with nothing but "approved"
AnyStatusInputs == StatusInputs \cup {"refunded"}

NextPayAnyStatus ==
  \/ \E d \in PayJumps : PayTick(d)
  \/ \E u \in Submitters, l \in PaidListings \cup {MissingListing},
        t \in TierIds \cup {MissingTier}, file \in BOOLEAN :
       AllIdle /\ Submit(u, l, t, file)
  \/ \E s \in SeqSlots, u \in UserIds, pid \in 1..MissingPayment,
        st \in AnyStatusInputs : AllIdle /\ Begin(s, u, pid, st)
  \/ \E s \in SeqSlots : WriteStatus(s)
  \/ \E s \in SeqSlots : SelectTier(s)
  \/ \E s \in SeqSlots : UpdateListing(s)
  \/ \E s \in SeqSlots : UpdateExpires(s)
  \/ \E s \in SeqSlots : Fail(s)
  \/ \E s \in SeqSlots : Respond(s)

SpecPayAnyStatus == Init /\ [][NextPayAnyStatus]_vars

\* ------------------------------------------------------ further payment claims
\* C23: after every step every payment has status pending, approved or
\* rejected, whatever status the admin passed, and a payment that the step
\* inserted has status pending and no expiresAt.
C23_StatusEnum ==
  [][\A i \in DOMAIN payments' :
       /\ payments'[i].status \in {"pending", "approved", "rejected"}
       /\ i \notin DOMAIN payments =>
            /\ payments'[i].status = "pending"
            /\ IsNull(payments'[i].expiresAt)]_vars

\* C24: a submit with a proof file and a tier id that has no tier row stores
\* no file.
C24_TierBeforeUpload ==
  [][\A u \in Submitters, l \in PaidListings, t \in TierIds \cup {MissingTier} :
       (Submit(u, l, t, TRUE) /\ t \notin DOMAIN tiers)
         => uploads' = uploads]_vars

\* C27: in every state, also between the writes of an approval and after an
\* approved payment got another status, every premium listing has a payment
\* with status approved, its premiumTierId and its premiumExpiresAt.
C27_PremiumHasApprovedPayment ==
  \A l \in DOMAIN listings :
    listings[l].isPremium =>
      \E i \in DOMAIN payments :
        /\ payments[i].listingId = l
        /\ payments[i].status = "approved"
        /\ Some(payments[i].tierId) = listings[l].premiumTierId
        /\ payments[i].expiresAt = listings[l].premiumExpiresAt

\* C28: every step of a request with newStatus approved leaves the set of
\* payments, every payment but its own and every listing but the one of its
\* payment as they were; of its payment it changes at most status and
\* expiresAt, and of that listing at most the three premium fields.
C28_ApproveFrame ==
  [][\A s \in Slots :
       (/\ inflight[s] # Idle
        /\ inflight[s].status = "approved"
        /\ inflight'[s] # inflight[s])
       => LET pid == inflight[s].pid IN
          /\ DOMAIN payments' = DOMAIN payments
          /\ \A i \in DOMAIN payments :
               IF i = pid
               THEN payments'[i] = [payments[i] EXCEPT
                                      !.status = payments'[i].status,
                                      !.expiresAt = payments'[i].expiresAt]
               ELSE payments'[i] = payments[i]
          /\ \A l \in DOMAIN listings :
               IF pid \in DOMAIN payments /\ l = payments[pid].listingId
               THEN listings'[l] = [listings[l] EXCEPT
                                      !.isPremium = listings'[l].isPremium,
                                      !.premiumTierId = listings'[l].premiumTierId,
                                      !.premiumExpiresAt = listings'[l].premiumExpiresAt]
               ELSE listings'[l] = listings[l]]_vars

\* C28 witness: the first payment was approved and its listing is premium, the
\* second payment and the other listing are as they were at the start
C28_Witness ==
  /\ AllIdle
  /\ payments[1].status = "approved"
  /\ ~IsNull(payments[1].expiresAt)
  /\ PremiumFields(listings[1]) = <<TRUE, Some(payments[1].tierId), payments[1].expiresAt>>
  /\ payments[2] = PendingPayments[2]
  /\ listings[2] = InitListings[2]

\* ------------------------------------------- premium lifetime specification
\* a payment for the 7-day tier, its approval or rejection, the listing
\* requests, and a clock that runs past the end of the premium period
NextPremium ==
  \/ \E d \in ExpiryJumps : PayTick(d)
  \/ \E u \in Submitters, l \in PaidListings : AllIdle /\ Submit(u, l, 2, TRUE)
  \/ \E s \in SeqSlots, u \in AdminIds, pid \in 1..MaxPayments, st \in StatusInputs :
       AllIdle /\ Begin(s, u, pid, st)
  \/ \E s \in SeqSlots : WriteStatus(s)
  \/ \E s \in SeqSlots : SelectTier(s)
  \/ \E s \in SeqSlots : UpdateListing(s)
  \/ \E s \in SeqSlots : UpdateExpires(s)
  \/ \E s \in SeqSlots : Fail(s)
  \/ \E s \in SeqSlots : Respond(s)
  \/ \E u \in UserIds, l \in EditedListings, title \in Titles :
       AllIdle /\ EditListing(u, l, title)
  \/ \E u \in UserIds, l \in EditedListings : AllIdle /\ DeleteListing(u, l)
  \/ \E u \in UserIds, l \in EditedListings, st \in ListingStatusInputs :
       AllIdle /\ AdminListingStatus(u, l, st)

SpecPremium == Init /\ [][NextPremium]_vars

\* C25: no step takes isPremium of a listing from true to false.
C25_PremiumNeverReset ==
  [][\A l \in DOMAIN listings :
       listings[l].isPremium => listings'[l].isPremium]_vars

\* C25 witness: a listing is still premium after its premiumExpiresAt has
\* passed, its payment was rejected and the listing was edited and removed
C25_Witness ==
  \E l \in DOMAIN listings, i \in DOMAIN payments :
    /\ listings[l].isPremium
    /\ Val(listings[l].premiumExpiresAt) < now
    /\ listings[l].status = "removed"
    /\ listings[l].title = "t1"
    /\ payments[i].listingId = l
    /\ payments[i].status = "rejected"
    /\ AllIdle

\* --------------------------------------------------------- WebSocket server
coreVars == <<now, ticks, views, tiers, listings, payments, uploads, inflight,
              res, messages, vflight>>

\* io.on('connection'): every connection gets a socket id of its own
Connect ==
  /\ Len(sockets) < MaxSockets
  /\ sockets' = Append(sockets, TRUE)
  /\ UNCHANGED <<userSockets, bookmarks, bflight>>
  /\ UNCHANGED coreVars

\* Map.set: the value of an existing key is replaced in place, a new key is
\* added at the end
MapSet(m, u, k) ==
  IF \E i \in DOMAIN m : m[i][1] = u
  THEN [i \in DOMAIN m |-> IF m[i][1] = u THEN <<u, k>> ELSE m[i]]
  ELSE Append(m, <<u, k>>)

\* socket.on('authenticate'): userSockets.set(userId, socket.id)
Authenticate(k, u) ==
  /\ k \in DOMAIN sockets /\ sockets[k]
  /\ userSockets' = MapSet(userSockets, u, k)
  /\ UNCHANGED <<sockets, bookmarks, bflight>>
  /\ UNCHANGED coreVars

\* the sequence m without its element at position i
RemoveAt(m, i) ==
  [j \in 1..(Len(m) - 1) |-> IF j < i THEN m[j] ELSE m[j + 1]]

\* the loop of the disconnect handler: the first entry whose value is the
\* socket id is deleted, then the loop breaks
DeleteFirst(m, k) ==
  IF \E i \in DOMAIN m : m[i][2] = k
  THEN RemoveAt(m, CHOOSE i \in DOMAIN m :
                     /\ m[i][2] = k
                     /\ \A j \in DOMAIN m : m[j][2] = k => i <= j)
  ELSE m

\* socket.on('disconnect')
Disconnect(k) ==
  /\ k \in DOMAIN sockets /\ sockets[k]
  /\ sockets' = [sockets EXCEPT ![k] = FALSE]
  /\ userSockets' = DeleteFirst(userSockets, k)
  /\ UNCHANGED <<bookmarks, bflight>>
  /\ UNCHANGED coreVars

NextSocket ==
  \/ Connect
  \/ \E k \in 1..MaxSockets, u \in UserIds : Authenticate(k, u)
  \/ \E k \in 1..MaxSockets : Disconnect(k)

SpecSocket == Init /\ [][NextSocket]_vars

\* C29: after every step no entry of userSockets holds the id of a socket that
\* is disconnected, and a disconnect keeps every entry that holds the id of
\* another socket.
C29_NoStaleSocket ==
  [][/\ \A i \in DOMAIN userSockets' : sockets'[userSockets'[i][2]]
     /\ \A k \in DOMAIN sockets :
          (sockets[k] /\ ~sockets'[k]) =>
            \A i \in DOMAIN userSockets :
              userSockets[i][2] # k =>
                \E j \in DOMAIN userSockets' : userSockets'[j] = userSockets[i]]_vars

\* ---------------------------------------------------------------- Bookmarks
BookmarkListings == ListingIds \cup {MissingListing}

\* the rows of bookmarks with the user and the listing
BookmarkRows(b, u, l) ==
  {i \in DOMAIN b : b[i].userId = u /\ b[i].listingId = l}

\* POST /api/bookmarks up to its first await: the select of the existing
\* bookmark, and the 400 answer when there is one
BookmarkSelect(s, u, l) ==
  /\ bflight[s] = Idle
  /\ IF BookmarkRows(bookmarks, u, l) # {}
     THEN /\ res' = [op |-> "bookmark", code |-> 400, msg |-> "Already bookmarked"]
          /\ UNCHANGED bflight
     ELSE /\ bflight' = [bflight EXCEPT ![s] = [pc |-> "insert", userId |-> u, listingId |-> l]]
          /\ UNCHANGED res
  /\ UNCHANGED <<bookmarks, userSockets, sockets>>
  /\ UNCHANGED <<now, ticks, views, tiers, listings, payments, uploads,
                 inflight, messages, vflight>>

\* POST /api/bookmarks from the insert on; the insert of a listing that does
\* not exist breaks the foreign key and is answered 500
BookmarkInsert(s) ==
  /\ bflight[s] # Idle
  /\ Len(bookmarks) < MaxBookmarks
  /\ IF bflight[s].listingId \in DOMAIN listings
     THEN /\ bookmarks' = Append(bookmarks, [userId |-> bflight[s].userId,
                                             listingId |-> bflight[s].listingId])
          /\ res' = [op |-> "bookmark", code |-> 200, msg |-> "created"]
     ELSE /\ res' = [op |-> "bookmark", code |-> 500, msg |-> "Failed to create bookmark"]
          /\ UNCHANGED bookmarks
  /\ bflight' = [bflight EXCEPT ![s] = Idle]
  /\ UNCHANGED <<userSockets, sockets>>
  /\ UNCHANGED <<now, ticks, views, tiers, listings, payments, uploads,
                 inflight, messages, vflight>>

\* DELETE /api/bookmarks/:listingId: one delete statement
BookmarkDelete(u, l) ==
  /\ bookmarks' = SelectSeq(bookmarks, LAMBDA r : ~(r.userId = u /\ r.listingId = l))
  /\ res' = [op |-> "unbookmark", code |-> 200, msg |-> "Bookmark removed"]
  /\ UNCHANGED <<bflight, userSockets, sockets>>
  /\ UNCHANGED <<now, ticks, views, tiers, listings, payments, uploads,
                 inflight, messages, vflight>>

NextBookmarks ==
  \/ \E s \in BSlots, u \in UserIds, l \in BookmarkListings : BookmarkSelect(s, u, l)
  \/ \E s \in BSlots : BookmarkInsert(s)
  \/ \E u \in UserIds, l \in BookmarkListings : BookmarkDelete(u, l)

SpecBookmarks == Init /\ [][NextBookmarks]_vars

\* C30: after every step there is at most one bookmark row per user and
\* listing, and a step of a create that answers for a pair that has a row
\* answers 400 "Already bookmarked" and leaves the bookmarks unchanged.
C30_OneBookmarkPerPair ==
  [][/\ \A u \in UserIds, l \in BookmarkListings :
          Cardinality(BookmarkRows(bookmarks', u, l)) <= 1
     /\ \A s \in BSlots, u \in UserIds, l \in BookmarkListings :
          (/\ BookmarkRows(bookmarks, u, l) # {}
           /\ \/ BookmarkSelect(s, u, l)
              \/ /\ bflight[s] = [pc |-> "insert", userId |-> u, listingId |-> l]
                 /\ BookmarkInsert(s))
          => /\ res' = [op |-> "bookmark", code |-> 400, msg |-> "Already bookmarked"]
             /\ bookmarks' = bookmarks]_vars

====
